---- MODULE Spec2Model ----
(***************************************************************************)
(* Model of class NNData (src/main.py): a feature/label container whose    *)
(* constructor and load_data validate the data and whose split_set         *)
(* partitions the row indices into a training and a testing list.          *)
(*                                                                         *)
(* Python values are represented as follows.                               *)
(*   - an optional value (None or a value) is a record [none, v];          *)
(*   - a raw row element is the text of a Python literal: "1" is a number, *)
(*     "Cat" a string that is not a number, "{}" an object float() does    *)
(*     not accept;                                                         *)
(*   - a coerced array is a sequence of numbers;                           *)
(*   - a train factor is held in tenths (9 is 0.9, 10 is 1, -50 is -5).    *)
(*                                                                         *)
(* Spec takes every method call as one step.  SpecLoop takes split_set in  *)
(* steps, one per draw of its sampling loop; pc is "loop" while a          *)
(* split_set call is between lines 90 and 104 and "idle" otherwise.        *)
(***************************************************************************)
EXTENDS Integers, Sequences, FiniteSets, TLC

VARIABLES features, labels, train_factor, train_indices, test_indices,
          alive, raised, call, pc

vars == <<features, labels, train_factor, train_indices, test_indices,
          alive, raised, call, pc>>

(* ------------------------------ bounds -------------------------------- *)

MaxRows == 2

MaxTestLen == 3

(* --------------------------- Python values ---------------------------- *)

None == [none |-> TRUE, v |-> <<>>]

Some(x) == [none |-> FALSE, v |-> x]

(* the Python list [] the constructor stores when an argument is omitted;   *)
(* every other stored value is a numpy array                               *)
EmptyList == [none |-> FALSE, v |-> <<>>, list |-> TRUE]

IsList(x) == "list" \in DOMAIN x

Range(s) == {s[i] : i \in 1..Len(s)}

Rows(n, p, e) == [i \in 1..n |-> IF i = p THEN e ELSE "1"]

(* the numeric datasets of every size, and the full-size datasets whose     *)
(* last row does not convert                                               *)
Datasets ==
    {Rows(n, 0, "1") : n \in 0..MaxRows}
        \cup {Rows(MaxRows, MaxRows, e) : e \in {"Cat", "{}"}}

Arguments == {None} \cup {Some(d) : d \in Datasets}

Ratios == {-50, 3, 9, 10, 50}

RatioArguments == {None} \cup {[none |-> FALSE, v |-> r] : r \in Ratios}

(* float(e) as numpy applies it to one element of an array *)
Float(e) ==
    CASE e = "1" -> [exc |-> "none", v |-> 1]
      [] e = "Cat" -> [exc |-> "ValueError", v |-> 0]
      [] OTHER -> [exc |-> "TypeError", v |-> 0]

(* np.array(rows, dtype=float): the first element that does not convert    *)
(* decides the exception                                                   *)
np_array(rows) ==
    LET bad == {i \in 1..Len(rows) : Float(rows[i]).exc # "none"}
        first == CHOOSE i \in bad : \A j \in bad : i <= j
    IN  IF bad = {}
        THEN [exc |-> "none", v |-> [i \in 1..Len(rows) |-> Float(rows[i]).v]]
        ELSE [exc |-> Float(rows[first]).exc, v |-> <<>>]

(* --------------------------- pure functions --------------------------- *)

(* percentage_limiter without the lower limit of lines 115-116 *)
percentage_limiter_unfloored(percentage) ==
    IF percentage > 10 THEN 10
    ELSE percentage

(* percentage_limiter with the two limits exchanged *)
percentage_limiter_swapped(percentage) ==
    IF percentage > 10 THEN 0
    ELSE IF percentage < 0 THEN 10
    ELSE percentage

percentage_limiter(percentage) ==
    IF percentage > 10 THEN 10
    ELSE IF percentage < 0 THEN 0
    ELSE percentage

(* floor(size * factor) with the factor in tenths *)
floor_times(size, factor) == (size * factor) \div 10

RECURSIVE Insert(_, _)
Insert(s, x) ==
    IF s = <<>> THEN <<x>>
    ELSE IF x < Head(s) THEN <<x>> \o s
    ELSE <<Head(s)>> \o Insert(Tail(s), x)

RECURSIVE sort(_)
sort(s) == IF s = <<>> THEN <<>> ELSE Insert(sort(Tail(s)), Head(s))

RECURSIVE Enumerate(_)
Enumerate(S) ==
    IF S = {} THEN <<>>
    ELSE LET x == CHOOSE y \in S : \A z \in S : y <= z
         IN  <<x>> \o Enumerate(S \ {x})

(* ------------------------------ load_data ----------------------------- *)

(* lines 145-151: both arrays are built inside one try that catches only   *)
(* ValueError; features are assigned before labels are converted           *)
coerce(fs, ls, f0, l0) ==
    LET fa == np_array(fs.v)
        la == np_array(ls.v)
    IN  IF fa.exc = "ValueError"
        THEN [features |-> None, labels |-> None, raised |-> "ValueError"]
        ELSE IF fa.exc = "TypeError"
        THEN [features |-> f0, labels |-> l0, raised |-> "TypeError"]
        ELSE IF la.exc = "ValueError"
        THEN [features |-> None, labels |-> None, raised |-> "ValueError"]
        ELSE IF la.exc = "TypeError"
        THEN [features |-> Some(fa.v), labels |-> l0, raised |-> "TypeError"]
        ELSE [features |-> Some(fa.v), labels |-> Some(la.v), raised |-> "none"]

(* load_data without the reset of lines 139-140 *)
load_data_keeps(fs, ls, f0, l0) ==
    IF fs.none
    THEN [features |-> None, labels |-> None, raised |-> "none"]
    ELSE IF ls.none
    THEN [features |-> f0, labels |-> l0, raised |-> "TypeError"]
    ELSE IF Len(fs.v) # Len(ls.v)
    THEN [features |-> f0, labels |-> l0, raised |-> "DataMismatchError"]
    ELSE coerce(fs, ls, f0, l0)

(* the fields and the exception load_data leaves, from fields f0 and l0;   *)
(* len(None) at line 137 raises TypeError before any assignment            *)
load_data(fs, ls, f0, l0) ==
    IF fs.none
    THEN [features |-> None, labels |-> None, raised |-> "none"]
    ELSE IF ls.none
    THEN [features |-> f0, labels |-> l0, raised |-> "TypeError"]
    ELSE IF Len(fs.v) # Len(ls.v)
    THEN [features |-> None, labels |-> None, raised |-> "DataMismatchError"]
    ELSE coerce(fs, ls, f0, l0)

(* ------------------------------ split_set ----------------------------- *)

(* split_set without the membership test of line 98: every index goes to   *)
(* the test list                                                           *)
split_set_all_test(new_train_factor, f0, factor0, train0, test0) ==
    IF f0.none
    THEN {[train_factor |-> factor0, train_indices |-> <<>>, test_indices |-> <<>>]}
    ELSE LET factor == IF new_train_factor.none THEN factor0
                       ELSE percentage_limiter(new_train_factor.v)
             size == Len(f0.v)
             available_indices == 0..(size - 1)
             number_of_training_examples == floor_times(size, factor)
             missing == IF Len(train0) < number_of_training_examples
                        THEN number_of_training_examples - Len(train0)
                        ELSE 0
             free == available_indices \ Range(train0)
         IN  {LET train == train0 \o Enumerate(drawn)
              IN  [train_factor |-> factor,
                   train_indices |-> sort(train),
                   test_indices |-> sort(test0 \o Enumerate(available_indices))]
              : drawn \in {d \in SUBSET free : Cardinality(d) = missing}}

(* split_set without the reset of lines 80-81 *)
split_set_absent_keeps(new_train_factor, f0, factor0, train0, test0) ==
    IF f0.none
    THEN {[train_factor |-> factor0, train_indices |-> train0, test_indices |-> test0]}
    ELSE LET factor == IF new_train_factor.none THEN factor0
                       ELSE percentage_limiter(new_train_factor.v)
             size == Len(f0.v)
             available_indices == 0..(size - 1)
             number_of_training_examples == floor_times(size, factor)
             missing == IF Len(train0) < number_of_training_examples
                        THEN number_of_training_examples - Len(train0)
                        ELSE 0
             free == available_indices \ Range(train0)
         IN  {LET train == train0 \o Enumerate(drawn)
                  rest == {i \in available_indices : i \notin Range(train)}
              IN  [train_factor |-> factor,
                   train_indices |-> sort(train),
                   test_indices |-> sort(test0 \o Enumerate(rest))]
              : drawn \in {d \in SUBSET free : Cardinality(d) = missing}}

(* split_set that falls back to the default factor 0.9 when the ratio is   *)
(* omitted                                                                 *)
split_set_default_factor(new_train_factor, f0, factor0, train0, test0) ==
    IF f0.none
    THEN {[train_factor |-> factor0, train_indices |-> <<>>, test_indices |-> <<>>]}
    ELSE LET factor == IF new_train_factor.none THEN 9
                       ELSE percentage_limiter(new_train_factor.v)
             size == Len(f0.v)
             available_indices == 0..(size - 1)
             number_of_training_examples == floor_times(size, factor)
             missing == IF Len(train0) < number_of_training_examples
                        THEN number_of_training_examples - Len(train0)
                        ELSE 0
             free == available_indices \ Range(train0)
         IN  {LET train == train0 \o Enumerate(drawn)
                  rest == {i \in available_indices : i \notin Range(train)}
              IN  [train_factor |-> factor,
                   train_indices |-> sort(train),
                   test_indices |-> sort(test0 \o Enumerate(rest))]
              : drawn \in {d \in SUBSET free : Cardinality(d) = missing}}

(* split_set that processes the ratio (lines 84-85) before the test of     *)
(* line 79                                                                 *)
split_set_ratio_first(new_train_factor, f0, factor0, train0, test0) ==
    IF f0.none
    THEN {[train_factor |-> IF new_train_factor.none THEN factor0
                            ELSE percentage_limiter(new_train_factor.v),
           train_indices |-> <<>>, test_indices |-> <<>>]}
    ELSE LET factor == IF new_train_factor.none THEN factor0
                       ELSE percentage_limiter(new_train_factor.v)
             size == Len(f0.v)
             available_indices == 0..(size - 1)
             number_of_training_examples == floor_times(size, factor)
             missing == IF Len(train0) < number_of_training_examples
                        THEN number_of_training_examples - Len(train0)
                        ELSE 0
             free == available_indices \ Range(train0)
         IN  {LET train == train0 \o Enumerate(drawn)
                  rest == {i \in available_indices : i \notin Range(train)}
              IN  [train_factor |-> factor,
                   train_indices |-> sort(train),
                   test_indices |-> sort(test0 \o Enumerate(rest))]
              : drawn \in {d \in SUBSET free : Cardinality(d) = missing}}

(* the results split_set can leave: the stored factor and the two lists *)
split_set(new_train_factor, f0, factor0, train0, test0) ==
    IF f0.none
    THEN {[train_factor |-> factor0, train_indices |-> <<>>, test_indices |-> <<>>]}
    ELSE LET factor == IF new_train_factor.none THEN factor0
                       ELSE percentage_limiter(new_train_factor.v)
             size == Len(f0.v)
             available_indices == 0..(size - 1)
             number_of_training_examples == floor_times(size, factor)
             missing == IF Len(train0) < number_of_training_examples
                        THEN number_of_training_examples - Len(train0)
                        ELSE 0
             free == available_indices \ Range(train0)
         IN  {LET train == train0 \o Enumerate(drawn)
                  rest == {i \in available_indices : i \notin Range(train)}
              IN  [train_factor |-> factor,
                   train_indices |-> sort(train),
                   test_indices |-> sort(test0 \o Enumerate(rest))]
              : drawn \in {d \in SUBSET free : Cardinality(d) = missing}}

(* ------------------------------ __init__ ------------------------------ *)

(* the fields the constructor holds when it reaches line 69, or the        *)
(* exception that leaves it                                                *)
init_data(fs, ls) ==
    LET first == IF fs.none
                 THEN [features |-> EmptyList, labels |-> None, raised |-> "none"]
                 ELSE LET r == load_data(fs, ls, None, None)
                      IN  IF r.raised \in {"DataMismatchError", "ValueError"}
                          THEN [features |-> None, labels |-> None, raised |-> "none"]
                          ELSE r
    IN  IF first.raised # "none" THEN first
        ELSE IF ls.none
        THEN [features |-> first.features, labels |-> EmptyList, raised |-> "none"]
        ELSE LET r == load_data(fs, ls, first.features, first.labels)
             IN  IF r.raised \in {"DataMismatchError", "ValueError"}
                 THEN [features |-> None, labels |-> None, raised |-> "none"]
                 ELSE r

Init ==
    \E ls \in Arguments, fs \in Arguments, tf \in Ratios :
        LET d == init_data(fs, ls)
        IN  /\ call = [op |-> "__init__", features |-> fs, labels |-> ls,
                       ratio |-> [none |-> FALSE, v |-> tf]]
            /\ raised = d.raised
            /\ pc = "idle"
            /\ IF d.raised # "none"
               THEN /\ alive = FALSE
                    /\ features = None
                    /\ labels = None
                    /\ train_factor = 0
                    /\ train_indices = <<>>
                    /\ test_indices = <<>>
               ELSE /\ alive = TRUE
                    /\ features = d.features
                    /\ labels = d.labels
                    /\ \E s \in split_set(None, d.features, percentage_limiter(tf),
                                          <<>>, <<>>) :
                           /\ train_factor = s.train_factor
                           /\ train_indices = s.train_indices
                           /\ test_indices = s.test_indices

(* ------------------------------ actions ------------------------------- *)

(* load_data that also empties the index lists *)
LoadData_clears ==
    \E ls \in Arguments, fs \in Arguments :
        LET r == load_data(fs, ls, features, labels)
        IN  /\ alive
            /\ pc = "idle"
            /\ features' = r.features
            /\ labels' = r.labels
            /\ raised' = r.raised
            /\ call' = [op |-> "load_data", features |-> fs, labels |-> ls,
                        ratio |-> None]
            /\ train_indices' = <<>>
            /\ test_indices' = <<>>
            /\ UNCHANGED <<train_factor, alive, pc>>

LoadData ==
    \E ls \in Arguments, fs \in Arguments :
        LET r == load_data(fs, ls, features, labels)
        IN  /\ alive
            /\ pc = "idle"
            /\ features' = r.features
            /\ labels' = r.labels
            /\ raised' = r.raised
            /\ call' = [op |-> "load_data", features |-> fs, labels |-> ls,
                        ratio |-> None]
            /\ UNCHANGED <<train_factor, train_indices, test_indices, alive, pc>>

SplitSet ==
    \E ratio \in RatioArguments :
        \E s \in split_set(ratio, features, train_factor, train_indices, test_indices) :
            /\ alive
            /\ pc = "idle"
            /\ Len(s.test_indices) <= MaxTestLen
            /\ train_factor' = s.train_factor
            /\ train_indices' = s.train_indices
            /\ test_indices' = s.test_indices
            /\ raised' = "none"
            /\ call' = [op |-> "split_set", features |-> None, labels |-> None,
                        ratio |-> ratio]
            /\ UNCHANGED <<features, labels, alive, pc>>

Next == LoadData \/ SplitSet

Spec == Init /\ [][Next]_vars

(* ------------------- split_set, one step per draw --------------------- *)

(* the condition of the while at line 90, tested with <= *)
loop_condition_inclusive(train, size, factor) ==
    Len(train) <= floor_times(size, factor)

(* the condition of the while at line 90 *)
loop_condition(train, size, factor) ==
    Len(train) < floor_times(size, factor)

(* the values random.randint can return at line 91, drawn from index 1 on *)
randint_range_from_one(size) == 1..(size - 1)

(* the values random.randint(available_indices[0], available_indices[-1])  *)
(* can return at line 91                                                   *)
randint_range(size) == 0..(size - 1)

(* lines 79-89 *)
SplitSetEnter ==
    \E ratio \in RatioArguments :
        /\ alive
        /\ pc = "idle"
        /\ call' = [op |-> "split_set", features |-> None, labels |-> None,
                    ratio |-> ratio]
        /\ raised' = "none"
        /\ IF features.none
           THEN /\ train_indices' = <<>>
                /\ test_indices' = <<>>
                /\ UNCHANGED <<features, labels, train_factor, alive, pc>>
           ELSE /\ Len(test_indices)
                       + Cardinality((0..(Len(features.v) - 1)) \ Range(train_indices))
                     <= MaxTestLen
                /\ train_factor' = IF ratio.none THEN train_factor
                                   ELSE percentage_limiter(ratio.v)
                /\ pc' = "loop"
                /\ UNCHANGED <<features, labels, train_indices, test_indices, alive>>

(* lines 90-95: one pass of the loop body; a draw already in train_indices *)
(* changes nothing; indexing an empty available_indices raises IndexError  *)
SplitSetDraw ==
    /\ pc = "loop"
    /\ loop_condition(train_indices, Len(features.v), train_factor)
    /\ IF Len(features.v) = 0
       THEN /\ raised' = "IndexError"
            /\ pc' = "idle"
            /\ UNCHANGED <<features, labels, train_factor, train_indices,
                           test_indices, alive, call>>
       ELSE \E r \in randint_range(Len(features.v)) :
                /\ train_indices' = IF r \in Range(train_indices)
                                    THEN train_indices
                                    ELSE Append(train_indices, r)
                /\ UNCHANGED <<features, labels, train_factor, test_indices,
                               alive, raised, call, pc>>

(* lines 97-104 *)
SplitSetExit ==
    /\ pc = "loop"
    /\ ~loop_condition(train_indices, Len(features.v), train_factor)
    /\ LET rest == {i \in 0..(Len(features.v) - 1) : i \notin Range(train_indices)}
       IN  test_indices' = sort(test_indices \o Enumerate(rest))
    /\ train_indices' = sort(train_indices)
    /\ pc' = "idle"
    /\ UNCHANGED <<features, labels, train_factor, alive, raised, call>>

NextLoop == LoadData \/ SplitSetEnter \/ SplitSetDraw \/ SplitSetExit

(* the program runs a call to completion, and every index of the range has *)
(* a positive probability at each draw                                     *)
SpecLoop ==
    /\ Init
    /\ [][NextLoop]_vars
    /\ WF_vars(SplitSetDraw)
    /\ WF_vars(SplitSetExit)

(* ------------------------------ properties --------------------------- *)

Loaded == alive /\ ~features.none

AfterSplit == Loaded /\ call.op = "split_set"

StrictlyAscending(s) == \A i \in 1..Len(s) : \A j \in 1..Len(s) : i < j => s[i] < s[j]

NonNumeric(rows) == \E i \in 1..Len(rows) : rows[i] # "1"

(* C1: after split_set(r) on a loaded dataset of n rows, whatever the      *)
(* partition was before, len(train_indices) = floor(n * clamp(r)) and      *)
(* len(test_indices) = n - floor(n * clamp(r)).                            *)
C1_SplitSizes ==
    (AfterSplit /\ ~call.ratio.none) =>
        LET n == Len(features.v)
            t == floor_times(n, percentage_limiter(call.ratio.v))
        IN  Len(train_indices) = t /\ Len(test_indices) = n - t

(* C2: after every split_set call on a loaded dataset, train_indices and   *)
(* test_indices have no index in common.                                   *)
C2_Disjoint == AfterSplit => Range(train_indices) \cap Range(test_indices) = {}

(* C3: after every split_set call on a loaded dataset, the indices of      *)
(* train_indices and test_indices together are exactly 0 .. n-1.           *)
C3_Cover ==
    AfterSplit =>
        Range(train_indices) \cup Range(test_indices) = 0..(Len(features.v) - 1)

(* C4: split_set on a loaded dataset recomputes from scratch: its result   *)
(* is one that split_set started on two empty index lists can produce.     *)
C4_FromScratch ==
    AfterSplit =>
        \E s \in split_set(None, features, train_factor, <<>>, <<>>) :
            train_indices = s.train_indices /\ test_indices = s.test_indices

(* C5: in every state of a constructed object, train_indices and           *)
(* test_indices are each strictly ascending (sorted, no duplicates).       *)
C5_StrictlyAscending ==
    alive => StrictlyAscending(train_indices) /\ StrictlyAscending(test_indices)

InvalidInput(fs, ls) ==
    /\ ~fs.none
    /\ \/ ls.none
       \/ Len(fs.v) # Len(ls.v)
       \/ NonNumeric(fs.v)
       \/ NonNumeric(ls.v)

(* C6: the constructor never lets an exception escape, and whenever its    *)
(* input is invalid the object has features and labels both None.          *)
C6_ConstructorNeverRaises ==
    call.op = "__init__" =>
        /\ alive
        /\ raised = "none"
        /\ InvalidInput(call.features, call.labels) => features.none /\ labels.none

Mismatched ==
    /\ alive
    /\ call.op = "load_data"
    /\ ~call.features.none
    /\ ~call.labels.none
    /\ Len(call.features.v) # Len(call.labels.v)

(* C7: load_data with len(features) # len(labels), in any state, raises    *)
(* DataMismatchError and leaves features and labels both None.             *)
C7_MismatchRaises ==
    Mismatched => raised = "DataMismatchError" /\ features.none /\ labels.none

(* a mismatched load_data on an object that had held data: its index lists *)
(* are those of the discarded data                                         *)
C7_Witness ==
    /\ Mismatched
    /\ raised = "DataMismatchError"
    /\ features.none
    /\ labels.none
    /\ train_indices # <<>>

NonNumericLoad ==
    /\ alive
    /\ call.op = "load_data"
    /\ ~call.features.none
    /\ ~call.labels.none
    /\ Len(call.features.v) = Len(call.labels.v)
    /\ NonNumeric(call.features.v) \/ NonNumeric(call.labels.v)

(* C8: load_data with equal-length inputs holding a non-numeric element in *)
(* features or in labels raises ValueError and leaves both fields None.    *)
C8_NonNumericRaises ==
    NonNumericLoad => raised = "ValueError" /\ features.none /\ labels.none

(* C9: every load_data call that raises leaves features and labels both    *)
(* None.                                                                   *)
C9_FailureLeavesAbsent ==
    (alive /\ call.op = "load_data" /\ raised # "none") =>
        features.none /\ labels.none

(* C10: in every state of a constructed object, features is None if and    *)
(* only if labels is None.                                                 *)
C10_BothOrNeither == alive => (features.none <=> labels.none)


ValidLoad ==
    /\ alive
    /\ call.op = "load_data"
    /\ ~call.features.none
    /\ ~call.labels.none
    /\ Len(call.features.v) = Len(call.labels.v)
    /\ ~NonNumeric(call.features.v)
    /\ ~NonNumeric(call.labels.v)

(* C11: whenever features and labels are both present they have the same   *)
(* length, and a load_data call with valid equal-length numeric inputs of  *)
(* n rows succeeds and leaves len(features) = len(labels) = n.             *)
C11_EqualLengths ==
    /\ (alive /\ ~features.none /\ ~labels.none) => Len(features.v) = Len(labels.v)
    /\ ValidLoad =>
           /\ raised = "none"
           /\ ~features.none
           /\ ~labels.none
           /\ Len(features.v) = Len(call.features.v)
           /\ Len(labels.v) = Len(call.features.v)


ValidConstruct ==
    /\ alive
    /\ call.op = "__init__"
    /\ ~call.features.none
    /\ ~call.labels.none
    /\ Len(call.features.v) = Len(call.labels.v)
    /\ ~NonNumeric(call.features.v)
    /\ ~NonNumeric(call.labels.v)

(* C12: constructing with valid equal-length data of n rows and factor r   *)
(* leaves len(train_indices) = floor(n * clamp(r)), the two lists disjoint *)
(* and their union 0 .. n-1; with r >= 1 every index is a training index   *)
(* and test_indices is empty.                                              *)
C12_ConstructPartition ==
    ValidConstruct =>
        LET n == Len(call.features.v)
            t == floor_times(n, percentage_limiter(call.ratio.v))
        IN  /\ ~features.none
            /\ Len(features.v) = n
            /\ Len(train_indices) = t
            /\ Range(train_indices) \cap Range(test_indices) = {}
            /\ Range(train_indices) \cup Range(test_indices) = 0..(n - 1)
            /\ call.ratio.v >= 10 => Len(train_indices) = n /\ test_indices = <<>>

(* a constructor given at least two valid rows and factor 1 *)
C12_Witness ==
    /\ ValidConstruct
    /\ call.ratio.v = 10
    /\ Len(call.features.v) >= 2
    /\ Len(train_indices) = Len(call.features.v)
    /\ test_indices = <<>>

(* C13: the stored train factor is in [0, 1] in every state of a           *)
(* constructed object; construction with -5 stores 0 and with 5 stores 1.  *)
C13_FactorInRange ==
    alive =>
        /\ 0 <= train_factor
        /\ train_factor <= 10
        /\ (call.op = "__init__" /\ call.ratio.v = -50) => train_factor = 0
        /\ (call.op = "__init__" /\ call.ratio.v = 50) => train_factor = 10

(* split_set(-5) on a loaded object has stored 0 *)
C13_Witness ==
    /\ AfterSplit
    /\ ~call.ratio.none
    /\ call.ratio.v = -50
    /\ train_factor = 0

Smaller(a, b) == IF a <= b THEN a ELSE b

Larger(a, b) == IF a >= b THEN a ELSE b

RatioProcessed ==
    /\ alive
    /\ ~call.ratio.none
    /\ call.op = "__init__" \/ (call.op = "split_set" /\ ~features.none)

(* C14: percentage_limiter(v) = max(0, min(1, v)): whenever a call has     *)
(* passed a ratio v through it, the stored factor is max(0, min(1, v)).    *)
C14_LimiterIsClamp ==
    RatioProcessed => train_factor = Larger(0, Smaller(10, call.ratio.v))

(* a constructor given the factor 5 has stored 1 *)
C14_Witness ==
    /\ alive
    /\ call.op = "__init__"
    /\ call.ratio.v = 50
    /\ train_factor = 10


(* EMPTY: constructed without data and nothing loaded since; INVALID:      *)
(* features is None                                                        *)
NoData == alive /\ (features.none \/ IsList(features))

(* C15: when the dataset holds no data (EMPTY or INVALID), a split_set     *)
(* call raises nothing and leaves train_indices and test_indices empty.    *)
C15_NoDataEmptyPartition ==
    (NoData /\ call.op = "split_set") =>
        raised = "none" /\ train_indices = <<>> /\ test_indices = <<>>

(* split_set(1) on an object whose features are None *)
C15_Witness ==
    /\ alive
    /\ features.none
    /\ call.op = "split_set"
    /\ ~call.ratio.none
    /\ call.ratio.v = 10
    /\ train_indices = <<>>
    /\ test_indices = <<>>

(* C16: split_set() with the ratio omitted leaves the stored factor        *)
(* unchanged and, on a loaded dataset of n rows, samples up to the target  *)
(* floor(n * f) for that stored factor f.                                  *)
C16_OmittedRatioKeepsFactor ==
    [][(alive /\ call'.op = "split_set" /\ call'.ratio.none) =>
           /\ train_factor' = train_factor
           /\ ~features.none =>
                  Len(train_indices') =
                      Larger(Len(train_indices),
                             floor_times(Len(features.v), train_factor))]_vars

(* split_set() on a loaded object whose stored factor is 1 *)
C16_Witness ==
    /\ AfterSplit
    /\ call.ratio.none
    /\ train_factor = 10
    /\ Len(features.v) >= 1
    /\ Len(train_indices) = Len(features.v)

(* C18: load_data, whether it succeeds or fails, leaves train_indices,     *)
(* test_indices and the stored train factor unchanged.                     *)
C18_LoadKeepsPartition ==
    [][call'.op = "load_data" =>
           UNCHANGED <<train_indices, test_indices, train_factor>>]_vars

(* after a successful reload the lists still hold an index of the previous *)
(* data that is no row of the new data                                     *)
C18_Witness ==
    /\ alive
    /\ call.op = "load_data"
    /\ raised = "none"
    /\ ~features.none
    /\ \E i \in Range(train_indices) \cup Range(test_indices) : i >= Len(features.v)

(* C19: split_set(r) with features None keeps the stored factor; on a      *)
(* loaded dataset it stores clamp(r).                                      *)
C19_AbsentSkipsRatio ==
    [][(alive /\ call'.op = "split_set" /\ ~call'.ratio.none) =>
           IF features.none
           THEN train_factor' = train_factor
           ELSE train_factor' = percentage_limiter(call'.ratio.v)]_vars

(* split_set(r) was called with features None and the stored factor is not *)
(* clamp(r)                                                                *)
C19_Witness ==
    /\ alive
    /\ features.none
    /\ call.op = "split_set"
    /\ ~call.ratio.none
    /\ train_factor # percentage_limiter(call.ratio.v)


LoopRunning ==
    /\ pc = "loop"
    /\ Len(train_indices) < floor_times(Len(features.v), train_factor)

(* C17: split_set terminates from every reachable state: while the         *)
(* sampling loop is running some index of 0 .. n-1 is not yet in           *)
(* train_indices, and under fair draws the call returns.                   *)
C17_SplitSetTerminates ==
    /\ [](LoopRunning =>
              \E i \in 0..(Len(features.v) - 1) : i \notin Range(train_indices))
    /\ (pc = "loop") ~> (pc = "idle")

(* a split_set with factor 1 is sampling on lists that already hold an     *)
(* index that is no row of the current data                                *)
C17_Witness ==
    /\ LoopRunning
    /\ train_factor = 10
    /\ \E i \in Range(train_indices) \cup Range(test_indices) : i >= Len(features.v)

(* C20: split_set never indexes an empty available_indices: the loop body  *)
(* is entered only with n >= 1, so no IndexError is raised, also for a     *)
(* dataset of zero rows.                                                   *)
C20_NoIndexError ==
    /\ raised # "IndexError"
    /\ LoopRunning => Len(features.v) >= 1

(* split_set(1) has returned on a loaded dataset of zero rows *)
C20_Witness ==
    /\ alive
    /\ pc = "idle"
    /\ call.op = "split_set"
    /\ ~call.ratio.none
    /\ call.ratio.v = 10
    /\ ~features.none
    /\ Len(features.v) = 0
    /\ raised = "none"

====
